---- MODULE Spec2Model ----
(***************************************************************************)
(* Model of anypy.py: a command-line tool that downloads a standalone     *)
(* CPython build for a (version, architecture) pair into                  *)
(* {location}/.py-{version}, through a file cache under ~/.cache/anypy,   *)
(* and then creates a virtual environment at {location}/.venv.            *)
(*                                                                         *)
(* Paths under {location} are strings relative to {location}.  Strings    *)
(* are handled as the sequences of characters they are, so interpolation  *)
(* is concatenation and pathlib's .name / str.split are computed.         *)
(***************************************************************************)
EXTENDS Integers, Sequences, FiniteSets, TLC

\* ------------------------------------------------------------------ bounds
\* Runs of the tool in one behaviour.
MaxRuns == 2
\* Direct calls of _cached_download in one behaviour.
MaxCalls == 3

\* ------------------------------------------------------- program constants
ARCHITECTURES == {"x86_64_v3", "aarch64", "armv7"}

RELEASE_MAP ==
       "3.8.9" :> "20210415"
    @@ "3.8.10" :> "20210506"
    @@ "3.8.11" :> "20210724"
    @@ "3.8.12" :> "20220227"
    @@ "3.8.13" :> "20220802"
    @@ "3.8.14" :> "20221002"
    @@ "3.8.15" :> "20221106"
    @@ "3.8.16" :> "20230726"
    @@ "3.8.17" :> "20230826"
    @@ "3.8.18" :> "20240224"
    @@ "3.8.19" :> "20240814"
    @@ "3.8.20" :> "20240909"
    @@ "3.9.4" :> "20210415"
    @@ "3.9.5" :> "20210506"
    @@ "3.9.6" :> "20210724"
    @@ "3.9.7" :> "20211017"
    @@ "3.9.10" :> "20220227"
    @@ "3.9.11" :> "20220318"
    @@ "3.9.12" :> "20220502"
    @@ "3.9.13" :> "20220802"
    @@ "3.9.14" :> "20221002"
    @@ "3.9.15" :> "20221106"
    @@ "3.9.16" :> "20230507"
    @@ "3.9.17" :> "20230726"
    @@ "3.9.18" :> "20240224"
    @@ "3.9.19" :> "20240814"
    @@ "3.9.20" :> "20241016"
    @@ "3.10.0" :> "20211017"
    @@ "3.10.2" :> "20220227"
    @@ "3.10.3" :> "20220318"
    @@ "3.10.4" :> "20220528"
    @@ "3.10.5" :> "20220630"
    @@ "3.10.6" :> "20220802"
    @@ "3.10.7" :> "20221002"
    @@ "3.10.8" :> "20221106"
    @@ "3.10.9" :> "20230116"
    @@ "3.10.11" :> "20230507"
    @@ "3.10.12" :> "20230726"
    @@ "3.10.13" :> "20240224"
    @@ "3.10.14" :> "20240814"
    @@ "3.10.15" :> "20241016"
    @@ "3.11.1" :> "20230116"
    @@ "3.11.3" :> "20230507"
    @@ "3.11.4" :> "20230726"
    @@ "3.11.5" :> "20230826"
    @@ "3.11.6" :> "20231002"
    @@ "3.11.7" :> "20240107"
    @@ "3.11.8" :> "20240224"
    @@ "3.11.9" :> "20240814"
    @@ "3.11.10" :> "20241016"
    @@ "3.12.0" :> "20231002"
    @@ "3.12.1" :> "20240107"
    @@ "3.12.2" :> "20240224"
    @@ "3.12.3" :> "20240415"
    @@ "3.12.4" :> "20240726"
    @@ "3.12.5" :> "20240814"
    @@ "3.12.6" :> "20240909"
    @@ "3.12.7" :> "20241016"
    @@ "3.13.0" :> "20241016"

\* --------------------------------------------------------- string helpers
\* The positions at which `sub` occurs in `s`.
Occurrences(sub, s) ==
    {i \in 1..(Len(s) - Len(sub) + 1) : SubSeq(s, i, i + Len(sub) - 1) = sub}

RECURSIVE RStripSlash(_)
RStripSlash(s) ==
    IF Len(s) > 1 /\ SubSeq(s, Len(s), Len(s)) = "/"
    THEN RStripSlash(SubSeq(s, 1, Len(s) - 1))
    ELSE s

\* pathlib.Path(url).name: the final path component.
Name(url) ==
    LET s == RStripSlash(url)
        slashes == Occurrences("/", s)
        last == IF slashes = {} THEN 0
                ELSE CHOOSE i \in slashes : \A j \in slashes : j <= i
    IN SubSeq(s, last + 1, Len(s))

\* version.split('.')[0]
Major(version) ==
    LET dots == Occurrences(".", version)
        first == IF dots = {} THEN Len(version) + 1
                 ELSE CHOOSE i \in dots : \A j \in dots : i <= j
    IN SubSeq(version, 1, first - 1)

\* pathlib's `a / b`
Join(a, b) == a \o "/" \o b

\* ------------------------------------------------------------ the resolver
Raise(exc) == [ok |-> FALSE, exc |-> exc, value |-> ""]
Return(v) == [ok |-> TRUE, exc |-> "", value |-> v]

\* _get_link with the f prefix of its second literal lost: the placeholders
\* stay in the link as written.
get_link_unformatted(version, arch) ==
    IF arch \notin ARCHITECTURES THEN Raise("RuntimeError")
    ELSE IF version \notin DOMAIN RELEASE_MAP THEN Raise("KeyError")
    ELSE Return(
        "https://github.com/indygreg/python-build-standalone/releases/download/"
        \o "{release}/cpython-{version}+{release}-{arch}-"
        \o "unknown-linux-gnu-install_only.tar.gz")

get_link(version, arch) ==
    IF arch \notin ARCHITECTURES THEN Raise("RuntimeError")
    ELSE IF version \notin DOMAIN RELEASE_MAP THEN Raise("KeyError")
    ELSE LET release == RELEASE_MAP[version] IN Return(
        "https://github.com/indygreg/python-build-standalone/releases/download/"
        \o release \o "/cpython-" \o version \o "+" \o release \o "-" \o arch \o "-"
        \o "unknown-linux-gnu-install_only.tar.gz")

\* -------------------------------------------------------- file contents
NoMembers == [m \in {} |-> ""]
\* No file at a path.
NoFile == [kind |-> "none", members |-> NoMembers]
\* Files cut short by a retrieval that failed part-way: an archive that
\* cannot be read to its end; `members` are those that arrived whole.
Partial == [kind |-> "partial", members |-> NoMembers]
PartialOneMember ==
    [kind |-> "partial", members |-> ("python/bin/python3" :> "elf")]
\* Archives a server may serve; members are paths inside the archive.
StandaloneArchive ==
    [kind |-> "archive", members |-> ("python/bin/python3" :> "elf")]
ArchiveWithGitignore ==
    [kind |-> "archive",
     members |-> ("python/bin/python3" :> "elf" @@ ".gitignore" :> "!python")]
ArchiveOtherLayout ==
    [kind |-> "archive", members |-> ("bin/python3" :> "elf")]
Archives == {StandaloneArchive, ArchiveWithGitignore, ArchiveOtherLayout}

\* What urllib.request.urlretrieve(url, cached_file) leaves at cached_file:
\* nothing (the request fails before the file is opened), a partial file
\* (the transfer breaks), or the whole served archive.
RetrieveOutcomes == {NoFile, Partial, PartialOneMember} \cup Archives

\* ----------------------------------------------------------------- inputs
Procs == {1, 2}
VersionInputs == {"3.12.7", "3.8.9", "9.9.9"}
\* The -a option: given with a value, or absent.
ArchArgs ==
    {[given |-> TRUE, value |-> a] : a \in {"x86_64_v3", "aarch64", "x86_64"}}
    \cup {[given |-> FALSE, value |-> ""]}
\* platform.machine()
Machines == {"x86_64", "aarch64"}
\* URLs handed to _cached_download directly; the first two share a file name.
FetchUrls ==
    {"https://mirror.example/a/pkg.tar.gz",
     "https://other.example/b/pkg.tar.gz",
     "https://mirror.example/a/other.tar.gz"}

\* ------------------------------------------------------------------ state
VARIABLES
    dirs,      \* directories made under {location}
    files,     \* path under {location} -> content
    cacheDir,  \* whether ~/.cache/anypy exists
    cache,     \* file name in ~/.cache/anypy -> content
    active,    \* the processes running in this behaviour
    runs,      \* invocations started so far
    pc,        \* per process: position in the program
    args,      \* per process: entry point and parsed arguments
    link,      \* per process: the URL (`link` in download, `url` in _cached_download)
    fetch,     \* per process: locals of _cached_download
    output,    \* per process: content of the file at `output` (pytarf)
    py_bin,    \* per process: the interpreter path download returns
    stdout,    \* per process: lines printed
    status,    \* per process: exit status, meaningful once pc = "exited"
    raised,    \* per process: the uncaught exception, "" if none
    effects,   \* per process: what this invocation did so far
    fetchLog   \* finished _cached_download invocations, in order of finishing

world == <<dirs, files, cacheDir, cache>>
locals == <<args, link, fetch, output, py_bin>>
observed == <<stdout, status, raised, effects, fetchLog>>
vars == <<dirs, files, cacheDir, cache, active, runs, pc, args, link, fetch,
          output, py_bin, stdout, status, raised, effects, fetchLog>>

NoArgs == [entry |-> "", version |-> "", arch |-> "", python_only |-> FALSE]
NoFetch == [url |-> "", file_name |-> "", miss |-> FALSE, before |-> NoMembers]
NoEffects ==
    [net |-> 0,          \* network retrievals started
     sub |-> 0,          \* subprocesses run
     rc |-> 0,           \* exit status of the last subprocess
     cacheWrites |-> 0,  \* files written in the cache directory
     destWrites |-> 0,   \* files written at `output`
     writes |-> {},      \* paths under {location} the tool made or wrote
     subWrites |-> {}]   \* paths under {location} the subprocess made

InitState(procs, pc0, args0) ==
    /\ dirs = {}
    /\ files = NoMembers
    /\ cacheDir = FALSE
    /\ cache = NoMembers
    /\ active = procs
    /\ runs = 0
    /\ pc = [p \in Procs |-> IF p \in procs THEN pc0 ELSE "idle"]
    /\ args = [p \in Procs |-> IF p \in procs THEN args0 ELSE NoArgs]
    /\ link = [p \in Procs |-> ""]
    /\ fetch = [p \in Procs |-> NoFetch]
    /\ output = [p \in Procs |-> NoFile]
    /\ py_bin = [p \in Procs |-> ""]
    /\ stdout = [p \in Procs |-> <<>>]
    /\ status = [p \in Procs |-> 0]
    /\ raised = [p \in Procs |-> ""]
    /\ effects = [p \in Procs |-> NoEffects]
    /\ fetchLog = <<>>

\* A fresh {location} and a fresh cache, one process.
Init == InitState({1}, "idle", NoArgs)

\* The uncaught exception `exc` ends process p: traceback, exit status 1.
Fails(p, exc) ==
    /\ pc' = [pc EXCEPT ![p] = "exited"]
    /\ status' = [status EXCEPT ![p] = 1]
    /\ raised' = [raised EXCEPT ![p] = exc]

\* Process p ends normally.
Succeeds(p) ==
    /\ pc' = [pc EXCEPT ![p] = "exited"]
    /\ status' = [status EXCEPT ![p] = 0]
    /\ raised' = raised

Goes(p, to) ==
    /\ pc' = [pc EXCEPT ![p] = to]
    /\ UNCHANGED <<status, raised>>

\* Process p starts running at `to`, with no exception pending.
Enters(p, to) ==
    /\ pc' = [pc EXCEPT ![p] = to]
    /\ status' = [status EXCEPT ![p] = 0]
    /\ raised' = [raised EXCEPT ![p] = ""]

\* A new invocation starts with nothing done and nothing printed.
Starts(p, limit) ==
    /\ p \in active
    /\ pc[p] \in {"idle", "exited"}
    /\ runs < limit
    /\ runs' = runs + 1
    /\ fetch' = [fetch EXCEPT ![p] = NoFetch]
    /\ output' = [output EXCEPT ![p] = NoFile]
    /\ py_bin' = [py_bin EXCEPT ![p] = ""]
    /\ stdout' = [stdout EXCEPT ![p] = <<>>]
    /\ effects' = [effects EXCEPT ![p] = NoEffects]

\* ---------------------------------------------------- command-line front end
\* parse_args for -a: argparse checks `choices` on a value that is given, and
\* takes the default, platform.machine(), unchecked.
parse_arch(a, machine) ==
    IF a.given
    THEN IF a.value \in ARCHITECTURES THEN Return(a.value)
         ELSE Raise("ArgumentError")
    ELSE Return(machine)

\* The dispatch with its branches swapped.
DispatchSwapped(python_only) == IF python_only THEN "venv" ELSE "download"

\* if args.python_only: download(...) else: venv(...)
Dispatch(python_only) == IF python_only THEN "download" ELSE "venv"

Main(p) ==
    /\ Starts(p, MaxRuns)
    /\ \E version \in VersionInputs, a \in ArchArgs, machine \in Machines,
          python_only \in BOOLEAN :
         LET arch == parse_arch(a, machine) IN
         /\ args' = [args EXCEPT ![p] =
                [entry |-> IF arch.ok THEN Dispatch(python_only) ELSE "",
                 version |-> version,
                 arch |-> IF arch.ok THEN arch.value ELSE a.value,
                 python_only |-> python_only]]
         /\ IF arch.ok
            THEN Enters(p, "download")
            ELSE \* parser.error: usage message, SystemExit(2)
                 /\ pc' = [pc EXCEPT ![p] = "exited"]
                 /\ status' = [status EXCEPT ![p] = 2]
                 /\ raised' = [raised EXCEPT ![p] = arch.exc]
    /\ link' = [link EXCEPT ![p] = ""]
    /\ UNCHANGED <<world, active, fetchLog>>

\* ------------------------------------------------------------------ download
InstallDir(version) == ".py-" \o version

\* download, lines 113-117: the install directory and its marker.
DownloadPrepare(p) ==
    /\ pc[p] = "download"
    /\ LET location == InstallDir(args[p].version)
           gitignore == Join(location, ".gitignore")
       IN /\ stdout' = [stdout EXCEPT ![p] =
                Append(@, "Downloading standalone binary for python "
                          \o args[p].version \o " at " \o location)]
          /\ dirs' = dirs \cup {location}
          /\ files' = (gitignore :> "*") @@ files
          /\ effects' = [effects EXCEPT ![p].writes =
                @ \cup ({location} \ dirs) \cup {gitignore}]
    /\ Goes(p, "get_link")
    /\ UNCHANGED <<cacheDir, cache, active, runs, locals, fetchLog>>

\* download, line 118: link = _get_link(version, arch)
DownloadGetLink(p) ==
    /\ pc[p] = "get_link"
    /\ LET r == get_link(args[p].version, args[p].arch) IN
       IF r.ok
       THEN /\ link' = [link EXCEPT ![p] = r.value]
            /\ Goes(p, "fetch")
       ELSE /\ link' = link
            /\ Fails(p, r.exc)
    /\ UNCHANGED <<world, active, runs, args, fetch, output, py_bin,
                   stdout, effects, fetchLog>>

\* ---------------------------------------------------------- _cached_download
\* The record of a finished invocation of _cached_download by p.
FetchRecord(p, eff, cacheAfter, dest, ok) ==
    [proc |-> p,
     url |-> fetch[p].url,
     file_name |-> fetch[p].file_name,
     miss |-> fetch[p].miss,
     net |-> eff.net,
     cacheWrites |-> eff.cacheWrites,
     destWrites |-> eff.destWrites,
     before |-> fetch[p].before,
     after |-> cacheAfter,
     dest |-> dest,
     ok |-> ok]

\* A direct call _cached_download(url, output) with a fresh output path.
CallFetch(p) ==
    /\ Starts(p, MaxCalls)
    /\ \E url \in FetchUrls :
         /\ link' = [link EXCEPT ![p] = url]
         /\ args' = [args EXCEPT ![p] = [NoArgs EXCEPT !.entry = "fetch"]]
    /\ Enters(p, "fetch")
    /\ UNCHANGED <<world, active, fetchLog>>

\* lines 89-90: user_cache.mkdir(parents=True, exist_ok=True)
FetchMkdir(p) ==
    /\ pc[p] = "fetch"
    /\ cacheDir' = TRUE
    /\ fetch' = [fetch EXCEPT ![p] =
            [url |-> link[p], file_name |-> "", miss |-> FALSE, before |-> cache]]
    /\ Goes(p, "fetch_check")
    /\ UNCHANGED <<dirs, files, cache, active, runs, args, link, output,
                   py_bin, stdout, effects, fetchLog>>

\* lines 91-93 with the existence test lost: every call retrieves.
FetchCheckAlwaysMiss(p) ==
    /\ pc[p] = "fetch_check"
    /\ fetch' = [fetch EXCEPT ![p].file_name = Name(fetch[p].url), ![p].miss = TRUE]
    /\ Goes(p, "fetch_retrieve")
    /\ UNCHANGED <<world, active, runs, args, link, output, py_bin,
                   stdout, effects, fetchLog>>

\* lines 91-93 treating an unreadable cache file as absent.
FetchCheckRevalidating(p) ==
    /\ pc[p] = "fetch_check"
    /\ LET file_name == Name(fetch[p].url)
           miss == \/ file_name \notin DOMAIN cache
                   \/ cache[file_name].kind # "archive"
       IN /\ fetch' = [fetch EXCEPT ![p].file_name = file_name, ![p].miss = miss]
          /\ Goes(p, IF miss THEN "fetch_retrieve" ELSE "fetch_copy")
    /\ UNCHANGED <<world, active, runs, args, link, output, py_bin,
                   stdout, effects, fetchLog>>

\* lines 91-93: if not cached_file.exists()
FetchCheck(p) ==
    /\ pc[p] = "fetch_check"
    /\ LET file_name == Name(fetch[p].url)
           miss == file_name \notin DOMAIN cache
       IN /\ fetch' = [fetch EXCEPT ![p].file_name = file_name, ![p].miss = miss]
          /\ Goes(p, IF miss THEN "fetch_retrieve" ELSE "fetch_copy")
    /\ UNCHANGED <<world, active, runs, args, link, output, py_bin,
                   stdout, effects, fetchLog>>

\* line 94 behind a lock that checks again: the retrieval is skipped when the
\* cache file has appeared since the check.
FetchRetrieveRechecked(p) ==
    /\ pc[p] = "fetch_retrieve"
    /\ \E r \in RetrieveOutcomes :
         LET skip == fetch[p].file_name \in DOMAIN cache
             eff == IF skip THEN effects[p]
                    ELSE [effects[p] EXCEPT
                            !.net = @ + 1,
                            !.cacheWrites = @ + (IF r = NoFile THEN 0 ELSE 1)]
             cacheAfter == IF skip \/ r = NoFile THEN cache
                           ELSE (fetch[p].file_name :> r) @@ cache
         IN /\ effects' = [effects EXCEPT ![p] = eff]
            /\ cache' = cacheAfter
            /\ IF skip \/ r.kind = "archive"
               THEN /\ Goes(p, "fetch_copy")
                    /\ fetchLog' = fetchLog
               ELSE /\ Fails(p, "URLError")
                    /\ fetchLog' = Append(fetchLog,
                            FetchRecord(p, eff, cacheAfter, NoFile, FALSE))
    /\ UNCHANGED <<dirs, files, cacheDir, active, runs, locals, stdout>>

\* line 94: urllib.request.urlretrieve(url, cached_file)
FetchRetrieve(p) ==
    /\ pc[p] = "fetch_retrieve"
    /\ \E r \in RetrieveOutcomes :
         LET eff == [effects[p] EXCEPT
                        !.net = @ + 1,
                        !.cacheWrites = @ + (IF r = NoFile THEN 0 ELSE 1)]
             cacheAfter == IF r = NoFile THEN cache
                           ELSE (fetch[p].file_name :> r) @@ cache
         IN /\ effects' = [effects EXCEPT ![p] = eff]
            /\ cache' = cacheAfter
            /\ IF r.kind = "archive"
               THEN /\ Goes(p, "fetch_copy")
                    /\ fetchLog' = fetchLog
               ELSE /\ Fails(p, "URLError")
                    /\ fetchLog' = Append(fetchLog,
                            FetchRecord(p, eff, cacheAfter, NoFile, FALSE))
    /\ UNCHANGED <<dirs, files, cacheDir, active, runs, locals, stdout>>

\* line 95 indented under the `if`: the copy is made on a miss only.
FetchCopyOnMissOnly(p) ==
    /\ pc[p] = "fetch_copy"
    /\ LET n == IF fetch[p].miss THEN 1 ELSE 0
           eff == [effects[p] EXCEPT !.destWrites = @ + n]
           content == IF fetch[p].miss THEN cache[fetch[p].file_name] ELSE output[p]
       IN /\ output' = [output EXCEPT ![p] = content]
          /\ effects' = [effects EXCEPT ![p] = eff]
          /\ fetchLog' = Append(fetchLog, FetchRecord(p, eff, cache, content, TRUE))
    /\ IF args[p].entry = "fetch" THEN Succeeds(p) ELSE Goes(p, "extract")
    /\ UNCHANGED <<world, active, runs, args, link, fetch, py_bin, stdout>>

\* line 95: shutil.copy2(cached_file, output); then the call returns.
FetchCopy(p) ==
    /\ pc[p] = "fetch_copy"
    /\ LET eff == [effects[p] EXCEPT !.destWrites = @ + 1]
           content == cache[fetch[p].file_name]
       IN /\ output' = [output EXCEPT ![p] = content]
          /\ effects' = [effects EXCEPT ![p] = eff]
          /\ fetchLog' = Append(fetchLog, FetchRecord(p, eff, cache, content, TRUE))
    /\ IF args[p].entry = "fetch" THEN Succeeds(p) ELSE Goes(p, "extract")
    /\ UNCHANGED <<world, active, runs, args, link, fetch, py_bin, stdout>>

\* download, lines 123-127: open the archive, extract it into the install
\* directory, leave the temporary directory, return the interpreter path.
\* An archive cut short raises ReadError once its whole members are out.
DownloadExtract(p) ==
    /\ pc[p] = "extract"
    /\ output' = [output EXCEPT ![p] = NoFile]
    /\ LET location == InstallDir(args[p].version)
           members == output[p].members
           paths == {Join(location, m) : m \in DOMAIN members}
           extracted == [f \in paths |->
               members[CHOOSE m \in DOMAIN members : Join(location, m) = f]]
       IN /\ files' = extracted @@ files
          /\ effects' = [effects EXCEPT ![p].writes = @ \cup paths]
          /\ IF output[p].kind # "archive"
             THEN /\ Fails(p, "ReadError")
                  /\ py_bin' = py_bin
             ELSE /\ py_bin' = [py_bin EXCEPT ![p] =
                         Join(Join(Join(location, "python"), "bin"),
                              "python" \o Major(args[p].version))]
                  /\ IF args[p].entry = "venv" THEN Goes(p, "venv") ELSE Succeeds(p)
    /\ UNCHANGED <<dirs, cacheDir, cache, active, runs, args, link, fetch,
                   stdout, fetchLog>>

\* ------------------------------------------------------------------- venv
\* Exit statuses of `{py_bin} -m venv --system-site-packages {location}` run
\* by the shell: 127 when there is no file at py_bin, else venv's own status.
SubprocessExits(bin) == IF bin \in DOMAIN files THEN {0, 1} ELSE {127}

VenvLayout == {".venv/bin/activate", ".venv/pyvenv.cfg"}

\* _venv with check=True dropped: the exit status is ignored, and the marker
\* is written when the directory is there to take it.
VenvAfterUnchecked(p, rc, made) ==
    LET gitignore == Join(".venv", ".gitignore")
        there == made \/ ".venv" \in dirs
    IN
    /\ dirs' = IF made THEN dirs \cup {".venv"} ELSE dirs
    /\ files' = IF ~there THEN files
                ELSE IF rc = 0
                THEN (gitignore :> "*") @@ [f \in VenvLayout |-> "venv"] @@ files
                ELSE (gitignore :> "*") @@ files
    /\ effects' = [effects EXCEPT
           ![p].sub = @ + 1,
           ![p].rc = rc,
           ![p].subWrites = @ \cup (IF made THEN {".venv"} ELSE {})
                              \cup (IF rc = 0 THEN VenvLayout ELSE {}),
           ![p].writes = @ \cup (IF there THEN {gitignore} ELSE {})]
    /\ IF there THEN Goes(p, "report") ELSE Fails(p, "FileNotFoundError")

\* What _venv does once the subprocess has ended with status rc; `made` says
\* whether a failing venv run had already made the directory.
VenvAfter(p, rc, made) ==
    LET gitignore == Join(".venv", ".gitignore") IN
    IF rc # 0
    THEN \* check=True: CalledProcessError
         /\ dirs' = IF made THEN dirs \cup {".venv"} ELSE dirs
         /\ files' = files
         /\ effects' = [effects EXCEPT
                ![p].sub = @ + 1,
           ![p].rc = rc,
                ![p].subWrites = @ \cup (IF made THEN {".venv"} ELSE {})]
         /\ Fails(p, "CalledProcessError")
    ELSE /\ dirs' = dirs \cup {".venv"}
         /\ files' = (gitignore :> "*") @@ [f \in VenvLayout |-> "venv"] @@ files
         /\ effects' = [effects EXCEPT
                ![p].sub = @ + 1,
           ![p].rc = rc,
                ![p].subWrites = @ \cup {".venv"} \cup VenvLayout,
                ![p].writes = @ \cup {gitignore}]
         /\ Goes(p, "report")

\* _venv, lines 130-137.
Venv(p) ==
    /\ pc[p] = "venv"
    /\ stdout' = [stdout EXCEPT ![p] =
            Append(@, "Creating virtual environment at .venv")]
    /\ \E rc \in SubprocessExits(py_bin[p]), made \in BOOLEAN :
         /\ rc = 127 => ~made
         /\ rc = 0 => made
         /\ VenvAfter(p, rc, made)
    /\ UNCHANGED <<cacheDir, cache, active, runs, locals, fetchLog>>

\* venv, lines 147-149: the two lines the command delivers.
VenvReport(p) ==
    /\ pc[p] = "report"
    /\ stdout' = [stdout EXCEPT ![p] =
            @ \o <<"Run python: " \o py_bin[p],
                   "Activate virtual environment: . "
                   \o Join(Join(".venv", "bin"), "activate")>>]
    /\ Succeeds(p)
    /\ UNCHANGED <<world, active, runs, locals, effects, fetchLog>>

\* ------------------------------------------------------------- specifications
\* Successive runs of the tool against one {location} and one cache.
Next ==
    \E p \in Procs :
        \/ Main(p)
        \/ DownloadPrepare(p)
        \/ DownloadGetLink(p)
        \/ FetchMkdir(p)
        \/ FetchCheck(p)
        \/ FetchRetrieve(p)
        \/ FetchCopy(p)
        \/ DownloadExtract(p)
        \/ Venv(p)
        \/ VenvReport(p)

Spec == Init /\ [][Next]_vars

\* Successive direct calls of _cached_download by one process.
FetchStep(p) ==
    \/ CallFetch(p)
    \/ FetchMkdir(p)
    \/ FetchCheck(p)
    \/ FetchRetrieve(p)
    \/ FetchCopy(p)

NextFetch == \E p \in Procs : FetchStep(p)

SpecFetch == Init /\ [][NextFetch]_vars

\* Two processes calling _cached_download against one cache directory.
InitRace == InitState({1, 2}, "idle", NoArgs)

SpecRace == InitRace /\ [][NextFetch]_vars

\* The resolver applied to one (version, arch).
Resolve(p) ==
    /\ pc[p] = "resolve"
    /\ LET r == get_link(args[p].version, args[p].arch) IN
       /\ link' = [link EXCEPT ![p] = r.value]
       /\ IF r.ok THEN Succeeds(p) ELSE Fails(p, r.exc)
    /\ UNCHANGED <<world, active, runs, args, fetch, output, py_bin,
                   stdout, effects, fetchLog>>

InitLink ==
    \E version \in DOMAIN RELEASE_MAP \cup {"9.9.9"},
       arch \in ARCHITECTURES \cup {"x86_64"} :
        InitState({1}, "resolve",
                  [NoArgs EXCEPT !.entry = "resolve",
                                 !.version = version, !.arch = arch])

NextLink == \E p \in Procs : Resolve(p)

SpecLink == InitLink /\ [][NextLink]_vars

\* ------------------------------------------------------------------ claims
StartsWith(prefix, s) ==
    Len(s) >= Len(prefix) /\ SubSeq(s, 1, Len(prefix)) = prefix

\* Process p printed a line beginning with `prefix`.
Printed(p, prefix) ==
    \E i \in 1..Len(stdout[p]) : StartsWith(prefix, stdout[p][i])

UnderVenv(path) == path = ".venv" \/ StartsWith(".venv/", path)

\* Process p is in, or has ended, a run of the tool (not a direct call).
ToolRun(p) == p \in active /\ pc[p] # "idle" /\ args[p].entry # "fetch"

\* The install step of download has completed in p's run.
Installed(p) == ToolRun(p) /\ py_bin[p] # ""

MarkerOf(version) == Join(InstallDir(version), ".gitignore")

\* C1: a run for a version that is not in RELEASE_MAP, with an allow-listed
\* architecture, never gets past the resolver, and ends with a non-zero
\* status having created and written nothing under {location} and retrieved
\* nothing.
C1_UnknownVersionNoSideEffects ==
    \A p \in Procs :
        (/\ ToolRun(p)
         /\ args[p].version \notin DOMAIN RELEASE_MAP
         /\ args[p].arch \in ARCHITECTURES)
        => /\ pc[p] \in {"download", "get_link", "exited"}
           /\ pc[p] = "exited"
                => /\ status[p] # 0
                   /\ effects[p].writes = {}
                   /\ effects[p].net = 0

\* C2: a run for an architecture that is not in ARCHITECTURES (given with -a,
\* or taken from platform.machine()) never gets past the resolver, and ends
\* with an unsupported-architecture error and a non-zero status; when that
\* error is raised the run has created no directory, written no file and
\* retrieved nothing.
C2_UnsupportedArchBeforeIO ==
    \A p \in Procs :
        (ToolRun(p) /\ args[p].arch \notin ARCHITECTURES)
        => /\ pc[p] \in {"download", "get_link", "exited"}
           /\ pc[p] = "exited"
                => /\ status[p] # 0
                   /\ raised[p] \in {"ArgumentError", "RuntimeError"}
                   /\ effects[p].writes = {}
                   /\ effects[p].net = 0

\* The resolver has returned a link for a registry version and an
\* allow-listed architecture.
Resolved(p) ==
    /\ p \in active
    /\ pc[p] = "exited"
    /\ args[p].entry = "resolve"
    /\ args[p].version \in DOMAIN RELEASE_MAP
    /\ args[p].arch \in ARCHITECTURES

NoPlaceholder(s) == Occurrences("{", s) = {} /\ Occurrences("}", s) = {}

\* C3 as stated: the link holds the version, the release identifier and the
\* architecture exactly once each, and no placeholder.
C3_EachExactlyOnce ==
    \A p \in Procs :
        Resolved(p)
        => /\ raised[p] = ""
           /\ Cardinality(Occurrences(args[p].version, link[p])) = 1
           /\ Cardinality(Occurrences(RELEASE_MAP[args[p].version], link[p])) = 1
           /\ Cardinality(Occurrences(args[p].arch, link[p])) = 1
           /\ NoPlaceholder(link[p])

\* C3 amended: the link holds the version and the architecture exactly once
\* each and the release identifier exactly twice (once as the path segment,
\* once in the file name), and no placeholder.
C3_ReleaseTwice ==
    \A p \in Procs :
        Resolved(p)
        => /\ raised[p] = ""
           /\ Cardinality(Occurrences(args[p].version, link[p])) = 1
           /\ Cardinality(Occurrences(RELEASE_MAP[args[p].version], link[p])) = 2
           /\ Cardinality(Occurrences(args[p].arch, link[p])) = 1
           /\ NoPlaceholder(link[p])

C3_Witness ==
    /\ Resolved(1)
    /\ args[1].version = "3.12.7"
    /\ args[1].arch = "x86_64_v3"
    /\ link[1] = "https://github.com/indygreg/python-build-standalone/releases/"
                 \o "download/20241016/cpython-3.12.7+20241016-x86_64_v3-"
                 \o "unknown-linux-gnu-install_only.tar.gz"

\* C4 as stated: two successive invocations of _cached_download for one URL
\* make exactly one retrieval in total, none of it in the second, and the
\* second copies the cache file the first wrote.
C4_TwoCallsOneRetrieval ==
    \A i \in 1..(Len(fetchLog) - 1) :
        fetchLog[i].url = fetchLog[i + 1].url
        => /\ fetchLog[i].net + fetchLog[i + 1].net = 1
           /\ fetchLog[i + 1].net = 0
           /\ fetchLog[i + 1].ok
           /\ fetchLog[i].file_name \in DOMAIN fetchLog[i].after
           /\ fetchLog[i + 1].dest = fetchLog[i].after[fetchLog[i].file_name]

\* C4 amended: when the first of two invocations for one URL finds no cache
\* entry and its retrieval writes the cache file, the first makes exactly one
\* retrieval, and every later invocation for that URL makes none and copies
\* the file the first wrote.
C4_OneRetrievalOnceWritten ==
    \A i \in 1..Len(fetchLog), j \in 1..Len(fetchLog) :
        (/\ i < j
         /\ fetchLog[i].url = fetchLog[j].url
         /\ fetchLog[i].file_name \notin DOMAIN fetchLog[i].before
         /\ fetchLog[i].cacheWrites = 1)
        => /\ fetchLog[i].net = 1
           /\ fetchLog[j].net = 0
           /\ fetchLog[j].ok
           /\ fetchLog[j].dest = fetchLog[i].after[fetchLog[i].file_name]

C4_Witness ==
    /\ Len(fetchLog) >= 2
    /\ fetchLog[1].url = fetchLog[2].url
    /\ fetchLog[1].cacheWrites = 1
    /\ fetchLog[1].ok
    /\ fetchLog[2].ok
    /\ fetchLog[2].net = 0

\* C5: once the install step of download has completed, the install
\* directory holds a .gitignore whose content is exactly "*", whatever the
\* archive held.
C5_MarkerAfterInstall ==
    \A p \in Procs :
        Installed(p)
        => /\ MarkerOf(args[p].version) \in DOMAIN files
           /\ files[MarkerOf(args[p].version)] = "*"

\* C6: when the environment-creation subprocess has exited non-zero, the run
\* has failed: it has ended with a non-zero status, printed neither result
\* line, and the tool has not written .venv/.gitignore.
C6_SubprocessFailureIsFatal ==
    \A p \in Procs :
        (ToolRun(p) /\ effects[p].sub > 0 /\ effects[p].rc # 0)
        => /\ pc[p] = "exited"
           /\ status[p] # 0
           /\ ~Printed(p, "Run python")
           /\ ~Printed(p, "Activate virtual environment")
           /\ Join(".venv", ".gitignore") \notin effects[p].writes

C6_Witness ==
    \E p \in Procs :
        /\ ToolRun(p)
        /\ effects[p].sub = 1
        /\ effects[p].rc = 1
        /\ ".venv" \in effects[p].subWrites
        /\ pc[p] = "exited"
        /\ raised[p] = "CalledProcessError"

\* C7: in a run with --python-only, at every point, no subprocess has been
\* run, nothing under .venv has been made or written, and control is in the
\* download path only.
C7_PythonOnlyNoVenv ==
    \A p \in Procs :
        (ToolRun(p) /\ args[p].python_only)
        => /\ effects[p].sub = 0
           /\ \A f \in effects[p].writes \cup effects[p].subWrites : ~UnderVenv(f)
           /\ pc[p] \notin {"venv", "report"}

C7_Witness ==
    \E p \in Procs :
        /\ ToolRun(p)
        /\ args[p].python_only
        /\ pc[p] = "exited"
        /\ status[p] = 0
        /\ py_bin[p] \in DOMAIN files

\* The cache files record r's invocation left differ from those it found by
\* exactly one new file, under its file name.
OneNewCacheFile(r) ==
    /\ r.file_name \notin DOMAIN r.before
    /\ DOMAIN r.after = DOMAIN r.before \cup {r.file_name}
    /\ \A f \in DOMAIN r.before : r.after[f] = r.before[f]

\* C8 as stated: every invocation of _cached_download writes exactly one
\* file at its destination; on a miss it writes exactly one new cache file,
\* on a hit none, leaving the cache as it was.
C8_OneDestinationWriteAlways ==
    \A i \in 1..Len(fetchLog) :
        LET r == fetchLog[i] IN
        /\ r.destWrites = 1
        /\ r.miss => r.cacheWrites = 1 /\ OneNewCacheFile(r)
        /\ ~r.miss => r.cacheWrites = 0 /\ r.after = r.before

\* C8 amended: an invocation that returns writes exactly one file at its
\* destination and one whose retrieval fails writes none; a miss whose
\* retrieval completes writes exactly one new cache file, a miss whose
\* retrieval fails writes at most one (a partial file, or nothing); a hit
\* writes no cache file and leaves the cache as it was.
C8_OneDestinationWriteOnReturn ==
    \A i \in 1..Len(fetchLog) :
        LET r == fetchLog[i] IN
        /\ r.destWrites = IF r.ok THEN 1 ELSE 0
        /\ (r.miss /\ r.ok) => r.cacheWrites = 1 /\ OneNewCacheFile(r)
        /\ (r.miss /\ ~r.ok) =>
              \/ r.cacheWrites = 0 /\ r.after = r.before
              \/ r.cacheWrites = 1 /\ OneNewCacheFile(r)
                 /\ r.after[r.file_name].kind = "partial"
        /\ ~r.miss => r.ok /\ r.cacheWrites = 0 /\ r.after = r.before

C8_Witness ==
    \E i \in 1..Len(fetchLog), j \in 1..Len(fetchLog), k \in 1..Len(fetchLog) :
        /\ fetchLog[i].miss /\ fetchLog[i].ok
        /\ fetchLog[j].miss /\ ~fetchLog[j].ok
        /\ ~fetchLog[k].miss

\* Every invocation that began with a cache file under its file name made
\* no retrieval and copied that file's content as it was.
HitsCopyUnchanged ==
    \A i \in 1..Len(fetchLog) :
        LET r == fetchLog[i] IN
        r.file_name \in DOMAIN r.before
        => /\ r.net = 0
           /\ r.cacheWrites = 0
           /\ r.ok
           /\ r.dest = r.before[r.file_name]

\* No step changes or removes a cache file that exists.
CacheFilesKept ==
    \A f \in DOMAIN cache : f \in DOMAIN cache' /\ cache'[f] = cache[f]

C10_MissAlwaysRetrieves ==
    /\ \A i \in 1..Len(fetchLog) : fetchLog[i].miss => fetchLog[i].net = 1
    /\ \A p \in Procs : pc[p] = "fetch_retrieve" => ENABLED FetchRetrieve(p)

\* Both processes found the same cache file absent, and both retrieved and
\* wrote it.
C10_Witness ==
    \E i \in 1..Len(fetchLog), j \in 1..Len(fetchLog) :
        /\ fetchLog[i].proc # fetchLog[j].proc
        /\ fetchLog[i].file_name = fetchLog[j].file_name
        /\ fetchLog[i].miss /\ fetchLog[j].miss
        /\ fetchLog[i].cacheWrites = 1 /\ fetchLog[j].cacheWrites = 1
        /\ fetchLog[i].file_name \notin DOMAIN fetchLog[i].before
        /\ fetchLog[j].file_name \notin DOMAIN fetchLog[j].before
====
